---- MODULE Spec2Model ----
(***************************************************************************)
(* PathMaker (src/src/lib/index.js): a function that builds URL or file    *)
(* system paths from a base path, with sub builders, path tokens merged    *)
(* from a payload and a URL query string.                                  *)
(*                                                                         *)
(* JavaScript strings are sequences of one-character strings.  JavaScript  *)
(* values are tagged records: Str, Num, Bool, Null, Undef, Arr, Obj.  A    *)
(* call that ends in a TypeError yields Throw.                             *)
(***************************************************************************)
EXTENDS Integers, Sequences, FiniteSets, TLC

VARIABLES
  builders,     \* the builders made so far, the root first
  last,         \* the last operation: its builder, arguments and result
  caller,       \* the basePath and opts values the caller passed to PathMaker
  shared,       \* the root's basePath is the caller's own inner sequence
  constructed   \* every builder as it was when it was returned

vars == <<builders, last, caller, shared, constructed>>

\* ------------------------------------------------------------ JS values

Str(s) == [t |-> "str", s |-> s]
Num(n) == [t |-> "num", n |-> n]
Bool(b) == [t |-> "bool", b |-> b]
Null == [t |-> "null"]
Undef == [t |-> "undef"]
Arr(a) == [t |-> "arr", a |-> a]
\* An object: its own enumerable properties, in insertion order.
Obj(o) == [t |-> "obj", o |-> o]
Prop(k, v) == [k |-> k, v |-> v]
\* The outcome of a call that raised a TypeError.
Throw == [t |-> "throw"]

IsStr(v) == v.t = "str"
IsArr(v) == v.t = "arr"
IsNullish(v) == v.t \in {"null", "undef"}

\* ToBoolean: the conditions `if (payload)`, `if (query)`, `!query`, `opts`.
Truthy(v) ==
  CASE v.t = "str" -> Len(v.s) > 0
    [] v.t = "num" -> v.n # 0
    [] v.t = "bool" -> v.b
    [] v.t \in {"null", "undef"} -> FALSE
    [] OTHER -> TRUE

\* ------------------------------------------------------------ strings

RECURSIVE Flatten(_)
Flatten(ss) == IF Len(ss) = 0 THEN <<>> ELSE Head(ss) \o Flatten(Tail(ss))

RECURSIVE Join(_, _)
\* Array.prototype.join on an array of strings.
Join(parts, sep) ==
  IF Len(parts) = 0 THEN <<>>
  ELSE IF Len(parts) = 1 THEN parts[1]
  ELSE parts[1] \o sep \o Join(Tail(parts), sep)

\* String.prototype.startsWith / endsWith.
StartsWith(s, d) == Len(s) >= Len(d) /\ SubSeq(s, 1, Len(d)) = d
EndsWith(s, d) == Len(s) >= Len(d) /\ SubSeq(s, Len(s) - Len(d) + 1, Len(s)) = d

\* String.prototype.substr(1).
Substr1(s) == SubSeq(s, 2, Len(s))

RECURSIVE Split(_, _)
\* String.prototype.split with a non-empty separator.
Split(s, d) ==
  LET hits == {i \in 1..(Len(s) - Len(d) + 1) : SubSeq(s, i, i + Len(d) - 1) = d}
  IN IF hits = {} THEN <<s>>
     ELSE LET i == CHOOSE j \in hits : \A k \in hits : j <= k
          IN <<SubSeq(s, 1, i - 1)>> \o Split(SubSeq(s, i + Len(d), Len(s)), d)

DigitChar(n) ==
  CASE n = 0 -> "0" [] n = 1 -> "1" [] n = 2 -> "2" [] n = 3 -> "3" [] n = 4 -> "4"
    [] n = 5 -> "5" [] n = 6 -> "6" [] n = 7 -> "7" [] n = 8 -> "8" [] n = 9 -> "9"

Digits == {"0", "1", "2", "3", "4", "5", "6", "7", "8", "9"}

DigitVal(c) == CHOOSE n \in 0..9 : DigitChar(n) = c

RECURSIVE NumToStr(_)
\* Number.prototype.toString for a natural number.
NumToStr(n) == IF n < 10 THEN <<DigitChar(n)>> ELSE NumToStr(n \div 10) \o <<DigitChar(n % 10)>>

RECURSIVE StrToNum(_)
StrToNum(s) == IF Len(s) = 0 THEN 0 ELSE 10 * StrToNum(SubSeq(s, 1, Len(s) - 1)) + DigitVal(s[Len(s)])

RECURSIVE ToStr(_)
\* ToString: `'' + value`, value.toString(), the string a value is encoded from.
ToStr(v) ==
  CASE v.t = "str" -> v.s
    [] v.t = "num" -> NumToStr(v.n)
    [] v.t = "bool" -> IF v.b THEN <<"t", "r", "u", "e">> ELSE <<"f", "a", "l", "s", "e">>
    [] v.t = "null" -> <<"n", "u", "l", "l">>
    [] v.t = "undef" -> <<"u", "n", "d", "e", "f", "i", "n", "e", "d">>
    [] v.t = "arr" ->
         Join([i \in 1..Len(v.a) |-> IF IsNullish(v.a[i]) THEN <<>> ELSE ToStr(v.a[i])], <<",">>)
    [] v.t = "obj" ->
         <<"[", "o", "b", "j", "e", "c", "t", " ", "O", "b", "j", "e", "c", "t", "]">>

\* encodeURIComponent of one character: letters, digits and - _ . ! ~ * ' ( )
\* stay, every other ASCII character becomes %XX.
EncodeChar(c) ==
  CASE c = " " -> <<"%", "2", "0">>
    [] c = "/" -> <<"%", "2", "F">>
    [] c = ":" -> <<"%", "3", "A">>
    [] c = "?" -> <<"%", "3", "F">>
    [] c = "=" -> <<"%", "3", "D">>
    [] c = "&" -> <<"%", "2", "6">>
    [] c = "%" -> <<"%", "2", "5">>
    [] c = "+" -> <<"%", "2", "B">>
    [] c = "," -> <<"%", "2", "C">>
    [] c = ">" -> <<"%", "3", "E">>
    [] c = "[" -> <<"%", "5", "B">>
    [] c = "]" -> <<"%", "5", "D">>
    [] c = "$" -> <<"%", "2", "4">>
    [] c = "#" -> <<"%", "2", "3">>
    [] c = "|" -> <<"%", "7", "C">>
    [] c = "<" -> <<"%", "3", "C">>
    [] c = ";" -> <<"%", "3", "B">>
    [] c = "@" -> <<"%", "4", "0">>
    [] OTHER -> <<c>>

encodeURIComponent(s) == Flatten([i \in 1..Len(s) |-> EncodeChar(s[i])])

\* ------------------------------------------------------------ properties

KeyQuery == <<"q", "u", "e", "r", "y">>
KeyLength == <<"l", "e", "n", "g", "t", "h">>
KeyDelimiter == <<"d", "e", "l", "i", "m", "i", "t", "e", "r">>
KeyTokenPrefix == <<"t", "o", "k", "e", "n", "P", "r", "e", "f", "i", "x">>
KeyPath == <<"p", "a", "t", "h">>

\* A canonical array index: "0", or digits without a leading zero.
IsIndexKey(k) ==
  /\ Len(k) > 0
  /\ \A i \in 1..Len(k) : k[i] \in Digits
  /\ (Len(k) > 1 => k[1] # "0")

RECURSIVE SortKeys(_)
\* The keys of a set of index keys, ascending.
SortKeys(ks) ==
  IF ks = {} THEN <<>>
  ELSE LET m == CHOOSE k \in ks : \A j \in ks : StrToNum(k) <= StrToNum(j)
       IN <<m>> \o SortKeys(ks \ {m})

IsIndexProp(p) == IsIndexKey(p.k)
IsNamedProp(p) == ~IsIndexKey(p.k)

\* Object.keys: integer keys ascending, then the other keys in insertion
\* order; the indices of a string or an array; nothing for other primitives.
ObjectKeys(v) ==
  CASE v.t = "obj" ->
         LET ix == SelectSeq(v.o, IsIndexProp)
             nm == SelectSeq(v.o, IsNamedProp)
         IN SortKeys({ix[i].k : i \in 1..Len(ix)}) \o [i \in 1..Len(nm) |-> nm[i].k]
    [] v.t = "str" -> [i \in 1..Len(v.s) |-> NumToStr(i - 1)]
    [] v.t = "arr" -> [i \in 1..Len(v.a) |-> NumToStr(i - 1)]
    [] OTHER -> <<>>

\* value.hasOwnProperty(key)
HasOwn(v, key) ==
  CASE v.t = "obj" -> \E i \in 1..Len(v.o) : v.o[i].k = key
    [] v.t = "str" -> key = KeyLength \/ (IsIndexKey(key) /\ StrToNum(key) < Len(v.s))
    [] v.t = "arr" -> key = KeyLength \/ (IsIndexKey(key) /\ StrToNum(key) < Len(v.a))
    [] OTHER -> FALSE

\* value[key] of a value that is neither null nor undefined.
Get(v, key) ==
  CASE v.t = "obj" ->
         IF \E i \in 1..Len(v.o) : v.o[i].k = key
         THEN v.o[CHOOSE i \in 1..Len(v.o) : v.o[i].k = key].v
         ELSE Undef
    [] v.t = "str" ->
         IF key = KeyLength THEN Num(Len(v.s))
         ELSE IF IsIndexKey(key) /\ StrToNum(key) < Len(v.s) THEN Str(<<v.s[StrToNum(key) + 1]>>)
         ELSE Undef
    [] v.t = "arr" ->
         IF key = KeyLength THEN Num(Len(v.a))
         ELSE IF IsIndexKey(key) /\ StrToNum(key) < Len(v.a) THEN v.a[StrToNum(key) + 1]
         ELSE Undef
    [] OTHER -> Undef

\* ------------------------------------------------------------ helpers

isDelimiter(value) == IsStr(value) /\ Len(value.s) > 0

isPathString(value) == IsStr(value)

isPathStringOrArray(value) == IsStr(value) \/ IsArr(value)

\* isTokenPrefix without its upper bound on the length.
isTokenPrefix_AnyLength(value) == IsStr(value) /\ Len(value.s) > 0

isTokenPrefix(value) == IsStr(value) /\ Len(value.s) > 0 /\ Len(value.s) < 2

\* ------------------------------------------------------------ PathMaker

RECURSIVE combinePath(_, _, _)
RECURSIVE normalizePath(_, _)
RECURSIVE reduceCombinePath(_, _, _)

\* Lines 62-68 of combinePath, on two normalized strings.
joinPaths(delimiter, path1, path2) ==
  LET d1 == EndsWith(path1, delimiter)
      d2 == StartsWith(path2, delimiter)
  IN IF d1 /\ d2 THEN path1 \o Substr1(path2)
     ELSE IF d1 \/ d2 THEN path1 \o path2
     ELSE path1 \o delimiter \o path2

\* `path2.length === 0`; reading .length of null or undefined throws.
LengthIsZero(v) == Get(v, KeyLength).t = "num" /\ Get(v, KeyLength).n = 0

combinePath(delimiter, path1, path2) ==
  LET p1 == normalizePath(delimiter, path1)
      p2 == normalizePath(delimiter, path2)
  IN IF p1.t = "throw" \/ p2.t = "throw" THEN Throw
     ELSE IF IsNullish(p2) THEN Throw
     ELSE IF LengthIsZero(p2) THEN p1
     \* endsWith and startsWith exist on strings only.
     ELSE IF ~IsStr(p1) \/ ~IsStr(p2) THEN Throw
     ELSE Str(joinPaths(delimiter, p1.s, p2.s))

\* arg.reduce(combinePath) after the first element: acc is the accumulator.
reduceCombinePath(delimiter, acc, rest) ==
  IF Len(rest) = 0 THEN acc
  ELSE LET next == combinePath(delimiter, acc, Head(rest))
       IN IF next.t = "throw" THEN Throw
          ELSE reduceCombinePath(delimiter, next, Tail(rest))

normalizePath(delimiter, arg) ==
  IF IsNullish(arg) THEN Str(<<>>)
  ELSE IF IsArr(arg) THEN
    IF Len(arg.a) < 1 THEN Str(<<>>)
    \* reduce without an initial value starts from the first element as it is.
    ELSE reduceCombinePath(delimiter, arg.a[1], Tail(arg.a))
  ELSE Str(ToStr(arg))

\* makeQueryString handing a string back as it is.
makeQueryString_Verbatim(query) ==
  IF IsNullish(query) THEN Str(<<>>)
  ELSE IF IsStr(query) THEN query
  ELSE LET keys == ObjectKeys(query)
           len == Len(keys)
       IN IF len < 1 THEN Str(<<>>)
          ELSE Str(<<"?">> \o Join([i \in 1..len |->
                 keys[i] \o <<"=">> \o encodeURIComponent(ToStr(Get(query, keys[i])))], <<"&">>))

\* makeQueryString encoding the keys as well as the values.
makeQueryString_EncodedKeys(query) ==
  IF IsNullish(query) THEN Str(<<>>)
  ELSE LET keys == ObjectKeys(query)
           len == Len(keys)
       IN IF len < 1 THEN Str(<<>>)
          ELSE Str(<<"?">> \o Join([i \in 1..len |->
                 encodeURIComponent(keys[i]) \o <<"=">>
                   \o encodeURIComponent(ToStr(Get(query, keys[i])))], <<"&">>))

makeQueryString(query) ==
  IF IsNullish(query) THEN Str(<<>>)
  ELSE LET keys == ObjectKeys(query)
           len == Len(keys)
       IN IF len < 1 THEN Str(<<>>)
          ELSE Str(<<"?">> \o Join([i \in 1..len |->
                 keys[i] \o <<"=">> \o encodeURIComponent(ToStr(Get(query, keys[i])))], <<"&">>))

\* partFromPayload without the hasOwnProperty test of line 183.
partFromPayload_NoOwnTest(tokenPrefix, payload, part) ==
  IF Len(part) < 2 \/ <<part[1]>> # tokenPrefix THEN part
  ELSE ToStr(Get(payload, Substr1(part)))

partFromPayload(tokenPrefix, payload, part) ==
  IF Len(part) < 2 \/ <<part[1]>> # tokenPrefix THEN part
  ELSE LET key == Substr1(part)
       IN IF ~HasOwn(payload, key) THEN part
          ELSE ToStr(Get(payload, key))

\* path.split exists on strings only.
mergePayload(delimiter, tokenPrefix, path, payload) ==
  IF ~IsStr(path) THEN Throw
  ELSE LET split == Split(path.s, delimiter)
           parts == [i \in 1..Len(split) |-> partFromPayload(tokenPrefix, payload, split[i])]
       IN Str(Join(parts, delimiter))

\* resolveArguments without line 130: in the (payload, query) shape the
\* payload's own query is never used.
resolveArguments_NoOwnQuery(b, args) ==
  LET n == Len(args)
      path == IF n >= 1 THEN args[1] ELSE Undef
      second == IF n >= 2 THEN args[2] ELSE Undef
      third == IF n >= 3 THEN args[3] ELSE Undef
      ownQuery(p) == IF Truthy(p) THEN Get(p, KeyQuery) ELSE Undef
  IN CASE n = 0 -> [returnPath |-> b.basePath, payload |-> Undef, query |-> Undef]
       [] n = 1 ->
            IF isPathStringOrArray(path)
            THEN [returnPath |-> combinePath(b.delimiter, b.basePath, path),
                  payload |-> Undef, query |-> Undef]
            ELSE [returnPath |-> b.basePath, payload |-> path, query |-> ownQuery(path)]
       [] n = 2 ->
            IF isPathStringOrArray(path)
            THEN [returnPath |-> combinePath(b.delimiter, b.basePath, path),
                  payload |-> second, query |-> ownQuery(second)]
            ELSE [returnPath |-> b.basePath, payload |-> path, query |-> second]
       [] OTHER ->
            [returnPath |-> combinePath(b.delimiter, b.basePath, path),
             payload |-> second, query |-> third]

\* The values of returnPath, payload and query at line 138, from the
\* arguments of the call (the switch of lines 109-137).
resolveArguments(b, args) ==
  LET n == Len(args)
      path == IF n >= 1 THEN args[1] ELSE Undef
      second == IF n >= 2 THEN args[2] ELSE Undef
      third == IF n >= 3 THEN args[3] ELSE Undef
      ownQuery(p) == IF Truthy(p) THEN Get(p, KeyQuery) ELSE Undef
  IN CASE n = 0 -> [returnPath |-> b.basePath, payload |-> Undef, query |-> Undef]
       [] n = 1 ->
            IF isPathStringOrArray(path)
            THEN [returnPath |-> combinePath(b.delimiter, b.basePath, path),
                  payload |-> Undef, query |-> Undef]
            ELSE [returnPath |-> b.basePath, payload |-> path, query |-> ownQuery(path)]
       [] n = 2 ->
            IF isPathStringOrArray(path)
            THEN [returnPath |-> combinePath(b.delimiter, b.basePath, path),
                  payload |-> second, query |-> ownQuery(second)]
            ELSE [returnPath |-> b.basePath, payload |-> path,
                  query |-> IF ~Truthy(second) /\ Truthy(path) THEN Get(path, KeyQuery)
                            ELSE second]
       [] OTHER ->
            [returnPath |-> combinePath(b.delimiter, b.basePath, path),
             payload |-> second, query |-> third]

\* makePath merging the payload after the query string was appended.
makePath_MergeAfterQuery(b, args) ==
  LET r == resolveArguments(b, args)
      appended == IF r.returnPath.t = "throw" THEN Throw
                  ELSE IF Truthy(r.query)
                  THEN Str(ToStr(r.returnPath) \o makeQueryString(r.query).s)
                  ELSE r.returnPath
  IN IF Len(args) = 0 THEN b.basePath
     ELSE IF appended.t = "throw" THEN Throw
     ELSE IF Truthy(r.payload)
     THEN mergePayload(b.delimiter, b.tokenPrefix, appended, r.payload)
     ELSE appended

makePath(b, args) ==
  LET r == resolveArguments(b, args)
      merged == IF r.returnPath.t = "throw" THEN Throw
                ELSE IF Truthy(r.payload)
                THEN mergePayload(b.delimiter, b.tokenPrefix, r.returnPath, r.payload)
                ELSE r.returnPath
  IN IF Len(args) = 0 THEN b.basePath
     ELSE IF merged.t = "throw" THEN Throw
     ELSE IF Truthy(r.query) THEN Str(ToStr(merged) \o makeQueryString(r.query).s)
     ELSE merged

\* The builder PathMaker returns: the variables its closure captures
\* (basePath, delimiter, tokenPrefix, opts) and its fields .basePath
\* (attrBasePath) and .path.
PathMaker(basePath, opts) ==
  LET bare == isDelimiter(opts)
      structured == ~bare /\ Truthy(opts)
      okDelimiter == structured /\ isDelimiter(Get(opts, KeyDelimiter))
      okPath == structured /\ isPathString(Get(opts, KeyPath))
      okTokenPrefix == structured /\ isTokenPrefix(Get(opts, KeyTokenPrefix))
      delimiter == IF bare THEN opts.s
                   ELSE IF okDelimiter THEN Get(opts, KeyDelimiter).s
                   ELSE <<"/">>
      tokenPrefix == IF okTokenPrefix THEN Get(opts, KeyTokenPrefix).s ELSE <<":">>
      pathFromOptions == IF okPath THEN Get(opts, KeyPath) ELSE Str(<<>>)
      keptOpts == IF structured
                  THEN Obj((IF okDelimiter THEN <<Prop(KeyDelimiter, Str(delimiter))>> ELSE <<>>)
                           \o (IF okTokenPrefix THEN <<Prop(KeyTokenPrefix, Str(tokenPrefix))>>
                               ELSE <<>>))
                  ELSE opts
      normalized == normalizePath(delimiter, basePath)
  IN IF normalized.t = "throw" THEN Throw
     ELSE [t |-> "builder", basePath |-> normalized, delimiter |-> delimiter,
           tokenPrefix |-> tokenPrefix, opts |-> keptOpts,
           attrBasePath |-> normalized, path |-> pathFromOptions]

\* createSub handing its own subOpts, not the parent's opts, to PathMaker.
createSub_SubOpts(b, subPath, subOpts) ==
  LET subBasePath == combinePath(b.delimiter, b.basePath, subPath)
      pm == PathMaker(subBasePath, subOpts)
  IN IF subBasePath.t = "throw" \/ pm.t = "throw" THEN Throw
     ELSE IF isPathString(subOpts) THEN [pm EXCEPT !.path = subOpts]
     ELSE IF Truthy(subOpts) /\ isPathString(Get(subOpts, KeyPath))
     THEN [pm EXCEPT !.path = Get(subOpts, KeyPath)]
     ELSE pm

createSub(b, subPath, subOpts) ==
  LET subBasePath == combinePath(b.delimiter, b.basePath, subPath)
      pm == PathMaker(subBasePath, b.opts)
  IN IF subBasePath.t = "throw" \/ pm.t = "throw" THEN Throw
     ELSE IF isPathString(subOpts) THEN [pm EXCEPT !.path = subOpts]
     ELSE IF Truthy(subOpts) /\ isPathString(Get(subOpts, KeyPath))
     THEN [pm EXCEPT !.path = Get(subOpts, KeyPath)]
     ELSE pm

\* ------------------------------------------------------------ inputs

MaxBuilders == 2

sH == <<"h">>
sHSlash == <<"h", "/">>
sA == <<"a">>
sASlash == <<"a", "/">>
sSlashA == <<"/", "a">>
sSlash == <<"/">>
sArrow == <<"-", ">">>
sAArrow == <<"a", "-", ">">>
sArrowA == <<"-", ">", "a">>
sTokenA == <<":", "a">>
sDollarA == <<"$", "a">>
sLabel == <<"L">>
sXY == <<"x", " ", "y">>
sBuilt == <<"?", "b", "=", "x", "+", "y">>

\* { a: 10, query: { b: 'x y' } }, { a: 'x y' }, { b: 'x y' }
PayloadWithQuery == Obj(<<Prop(sA, Num(10)), Prop(KeyQuery, Obj(<<Prop(<<"b">>, Str(sXY))>>))>>)
PayloadPlain == Obj(<<Prop(sA, Str(sXY))>>)
QueryPlain == Obj(<<Prop(<<"b">>, Str(sXY))>>)

\* Base paths given to PathMaker.
BasePaths == {Str(sHSlash), Arr(<<Str(sH), Str(sTokenA)>>), Arr(<<Arr(<<Num(10)>>)>>)}

\* The opts of PathMaker: none, a bare delimiter, an options object.
Options ==
  {Undef, Str(sArrow),
   Obj(<<Prop(KeyDelimiter, Str(sArrow)), Prop(KeyTokenPrefix, Str(<<"$">>)),
         Prop(KeyPath, Str(sLabel))>>)}

\* The subPath and subOpts of sub.
SubPaths == {Str(<<>>), Str(<<"$", "a", "-", ">">>)}
SubOptions ==
  {Undef, Str(sLabel),
   Obj(<<Prop(KeyDelimiter, Str(<<"|">>)), Prop(KeyTokenPrefix, Str(<<"#">>))>>)}

\* The arguments of a call of a builder.
ArgLists ==
  {<<>>, <<Str(sA)>>, <<PayloadWithQuery>>, <<Arr(<<Num(10)>>)>>,
   <<Str(<<":", "a", "/", "$", "a">>), PayloadWithQuery>>,
   <<Str(sTokenA), PayloadPlain, QueryPlain>>}

\* The arguments of normalize and of query.
Fragments == {Undef, Str(sA), Arr(<<Num(10)>>), Arr(<<Str(sASlash), Str(sSlashA)>>)}
Queries == {Undef, Obj(<<>>), QueryPlain}

\* ------------------------------------------------------------ operations

\* No operation yet.
NoCall == [op |-> "none", b |-> 0, args |-> <<>>, res |-> Undef]

\* Nothing passed to PathMaker yet.
NoCaller == [basePath |-> Undef, opts |-> Undef]

\* normalizePath hands back the only element of a one-element sequence as it
\* is (reduce without an initial value): when that element is itself a
\* sequence, the builder's basePath is the very object the caller holds.
SharesElement(basePath) ==
  IsArr(basePath) /\ Len(basePath.a) = 1 /\ IsArr(basePath.a[1])

Init ==
  /\ builders = <<>>
  /\ last = NoCall
  /\ caller = NoCaller
  /\ shared = FALSE
  /\ constructed = <<>>

\* PathMaker(basePath, opts).  One root builder: PathMaker shares nothing
\* between two calls, every further builder of the model comes from sub.
Create(bases, options) ==
  \E basePath \in bases, opts \in options :
    LET pm == PathMaker(basePath, opts)
    IN /\ builders = <<>>
       /\ builders' = IF pm.t = "throw" THEN builders ELSE Append(builders, pm)
       /\ constructed' = IF pm.t = "throw" THEN constructed ELSE Append(constructed, pm)
       /\ caller' = [basePath |-> basePath, opts |-> opts]
       /\ shared' = (pm.t # "throw" /\ SharesElement(basePath))
       /\ last' = [op |-> "create", b |-> 0, args |-> <<basePath, opts>>,
                   res |-> IF pm.t = "throw" THEN Throw
                           ELSE [t |-> "builder", i |-> Len(builders) + 1]]

\* builders[i].sub(subPath, subOpts)
Sub(subPaths, subOptions) ==
  \E i \in 1..Len(builders), subPath \in subPaths, subOpts \in subOptions :
    LET pm == createSub(builders[i], subPath, subOpts)
    IN /\ Len(builders) < MaxBuilders
       /\ builders' = IF pm.t = "throw" THEN builders ELSE Append(builders, pm)
       /\ constructed' = IF pm.t = "throw" THEN constructed ELSE Append(constructed, pm)
       /\ UNCHANGED <<caller, shared>>
       /\ last' = [op |-> "sub", b |-> i, args |-> <<subPath, subOpts>>,
                   res |-> IF pm.t = "throw" THEN Throw
                           ELSE [t |-> "builder", i |-> Len(builders) + 1]]

\* builders[i](...args)
Call(argLists) ==
  \E i \in 1..Len(builders), args \in argLists :
    /\ last' = [op |-> "call", b |-> i, args |-> args, res |-> makePath(builders[i], args)]
    /\ UNCHANGED <<builders, caller, shared, constructed>>

\* builders[i].normalize(arg)
Normalize(fragments) ==
  \E i \in 1..Len(builders), arg \in fragments :
    /\ last' = [op |-> "normalize", b |-> i, args |-> <<arg>>,
                res |-> normalizePath(builders[i].delimiter, arg)]
    /\ UNCHANGED <<builders, caller, shared, constructed>>

\* builders[i].query(query)
Query(queries) ==
  \E i \in 1..Len(builders), query \in queries :
    /\ last' = [op |-> "query", b |-> i, args |-> <<query>>, res |-> makeQueryString(query)]
    /\ UNCHANGED <<builders, caller, shared, constructed>>

Next ==
  \/ Create(BasePaths, Options)
  \/ Sub(SubPaths, SubOptions)
  \/ Call(ArgLists)
  \/ Normalize(Fragments)
  \/ Query(Queries)

Spec == Init /\ [][Next]_vars

\* ------------------------------------------------------------ single operations
\* Each operation on its own, on one builder, over a wider set of arguments.

\* PathMaker('h/'), PathMaker('h/', '->'),
\* PathMaker('h/', { delimiter: '->', tokenPrefix: '$', path: 'L' })
InitOne ==
  /\ \E opts \in Options :
       /\ builders = <<PathMaker(Str(sHSlash), opts)>>
       /\ caller = [basePath |-> Str(sHSlash), opts |-> opts]
  /\ last = NoCall
  /\ shared = FALSE
  /\ constructed = builders

\* Calls by the shape of each argument.
FirstArgs ==
  {Str(sA), Str(<<":", "a", "/", "$", "a">>), Arr(<<Num(10), Str(sA)>>),
   PayloadWithQuery, PayloadPlain, Null, Num(10)}
SecondArgs ==
  {PayloadWithQuery, QueryPlain, Undef, Null, Str(<<>>), Str(sBuilt), Num(0), Bool(FALSE)}
ThirdArgs == {QueryPlain, Str(sBuilt), Str(<<>>), Undef}

ShapedArgLists ==
  {<<>>}
    \cup {<<a>> : a \in FirstArgs}
    \cup {<<a, b>> : a \in FirstArgs, b \in SecondArgs}
    \cup {<<a, b, c>> : a \in {Str(sTokenA), Null, PayloadWithQuery, Arr(<<Num(10), Str(sA)>>)},
                        b \in {PayloadWithQuery, Undef, Str(sBuilt)}, c \in ThirdArgs}
    \cup {<<Str(sTokenA), PayloadPlain, QueryPlain, Str(sA)>>}

NextCall == Call(ShapedArgLists)

SpecCall == InitOne /\ [][NextCall]_vars

\* Path templates and payloads.
Templates ==
  {Str(<<>>), Str(sA), Str(sTokenA), Str(sDollarA), Str(<<":">>), Str(<<"$">>),
   Str(<<"/", ":", "a", "/">>), Str(<<":", "a", "/", ":", "b">>),
   Str(<<":", "a", "-", ">", ":", "b">>), Str(<<"$", "a", "-", ">", "$", "b", "-", ">">>),
   Str(<<"a", ":", "a">>), Str(<<":", ":", "a">>), Str(<<":", "a", ":", "b">>),
   Str(<<":", "c", "/", "$", "c">>)}
TokenValues ==
  {Num(10), Null, Undef, Bool(TRUE), Str(<<>>), Str(<<":", "b">>), Str(<<"x", "/", "y">>),
   Str(<<"$", "b", "-", ">">>)}
Payloads ==
  {Obj(<<>>), Obj(<<Prop(<<>>, Str(sA))>>), Obj(<<Prop(<<"b">>, Num(7))>>)}
    \cup {Obj(<<Prop(sA, v)>>) : v \in TokenValues}
    \cup {Obj(<<Prop(sA, v), Prop(<<"b">>, Str(<<"z">>))>>) : v \in TokenValues}

MergeArgLists == {<<path, payload>> : path \in Templates, payload \in Payloads}

NextMerge == Call(MergeArgLists)

SpecMerge == InitOne /\ [][NextMerge]_vars

\* Queries: mappings of one and two keys, and values that are no mapping.
QueryKeys == {sA, <<"b", " ">>, <<"1">>, <<"9">>, <<"1", "0">>, <<"0", "1">>}
QueryValues == {Str(sXY), Str(<<"/", "d">>), Num(10), Null}
QueryObjects ==
  {Obj(<<>>)}
    \cup {Obj(<<Prop(k, v)>>) : k \in QueryKeys, v \in QueryValues}
    \cup {Obj(<<Prop(kv[1], kv[2]), Prop(kv[3], Str(sA))>>) :
            kv \in {x \in QueryKeys \X QueryValues \X QueryKeys : x[1] # x[3]}}
    \cup {Obj(<<Prop(<<"b">>, Str(sA)), Prop(<<"9">>, Str(sA)), Prop(<<"1", "0">>, Str(sA))>>)}
QueryStrings == {Str(<<>>), Str(sA), Str(sBuilt), Str(<<"a", "=", "x", "%", "2", "0", "y">>)}
AllQueries == {Undef, Null, Num(10), Bool(TRUE), Arr(<<Str(sA), Str(sXY)>>)}
                \cup QueryObjects \cup QueryStrings

QueryArgLists ==
  {<<path, payload, query>> : path \in {Str(sA), Null}, payload \in {Undef, PayloadWithQuery},
                              query \in QueryStrings \cup {QueryPlain}}
    \cup {<<payload, query>> : payload \in {Null, PayloadWithQuery}, query \in QueryStrings}

NextQuery == Query(AllQueries) \/ Call(QueryArgLists)

SpecQuery == InitOne /\ [][NextQuery]_vars

\* Fragments joined by normalize: sequences of one, two and three elements.
JoinStrings ==
  {Str(<<>>), Str(sA), Str(sSlash), Str(sASlash), Str(sSlashA), Str(<<"/", "/">>),
   Str(sArrow), Str(sAArrow), Str(sArrowA)}
JoinFragments ==
  JoinStrings \cup {Num(10), Null, Arr(<<>>), Arr(<<Str(sA)>>), Arr(<<Str(sA), Str(sSlashA)>>),
                    Arr(<<Num(10)>>)}
JoinSequences ==
  {Arr(<<a>>) : a \in JoinFragments \cup {Arr(<<Arr(<<Str(sA), Str(sA)>>)>>)}}
    \cup {Arr(<<a, b>>) : a, b \in JoinFragments}
    \cup {Arr(<<a, b, c>>) :
            a, b, c \in {Str(<<>>), Str(sA), Str(sSlash), Str(sASlash), Str(sArrow), Str(sAArrow),
                         Arr(<<Arr(<<Str(sA), Str(sA)>>)>>)}}

NormalizeArgs == {Undef, Null, Str(sA), Num(10), Arr(<<>>)} \cup JoinSequences

NextNormalize == Normalize(NormalizeArgs)

SpecNormalize == InitOne /\ [][NextNormalize]_vars

\* PathMaker over its options: bare values of every type, and objects whose
\* delimiter, tokenPrefix and path are each absent, valid or invalid.
Absent == [t |-> "absent"]
Field(key, value) == IF value = Absent THEN <<>> ELSE <<Prop(key, value)>>

DelimiterValues ==
  {Absent, Undef, Null, Str(<<>>), Str(sArrow), Str(<<"|">>), Num(10), Bool(TRUE),
   Arr(<<Str(<<"|">>)>>)}
TokenPrefixValues ==
  {Absent, Null, Str(<<>>), Str(<<"$">>), Str(<<"$", "$">>), Num(1), Arr(<<Str(<<"$">>)>>)}
PathValues == {Absent, Str(sLabel), Num(10)}

BareOptions ==
  {Undef, Null, Str(<<>>), Str(sArrow), Str(<<"|">>), Num(0), Num(5), Bool(TRUE), Bool(FALSE),
   Arr(<<Str(sArrow)>>)}
OptionObjects ==
  {Obj(Field(KeyDelimiter, d) \o Field(KeyTokenPrefix, p) \o Field(KeyPath, l)) :
     d \in DelimiterValues, p \in TokenPrefixValues, l \in PathValues}
WideOptions == BareOptions \cup OptionObjects

OptionBases == {Str(sHSlash), Arr(<<Str(sH), Str(sA)>>)}

\* Calls that show the delimiter and the token prefix of the builder at work.
OptionArgLists ==
  {<<Arr(<<Str(sA), Str(<<":", "a", "|", "$", "a", "-", ">", "$", "$", "a">>)>>), PayloadPlain>>}

NextOptions == Create(OptionBases, WideOptions) \/ Call(OptionArgLists)

SpecOptions == Init /\ [][NextOptions]_vars

\* The caller's side: after PathMaker returned, the caller still holds the
\* options object and the base sequence it passed and may change them, and it
\* may assign to the fields of a builder.
MaxElements == 3

\* obj[key] = value
SetProp(obj, key, value) ==
  IF HasOwn(obj, key)
  THEN Obj([i \in 1..Len(obj.o) |-> IF obj.o[i].k = key THEN Prop(key, value) ELSE obj.o[i]])
  ELSE Obj(Append(obj.o, Prop(key, value)))

\* caller.opts[key] = value.  PathMaker copied the valid fields into an object
\* of its own (opts = {}), so no builder holds the caller's object.
MutateOptions(keys, values) ==
  \E key \in keys, value \in values :
    /\ builders # <<>>
    /\ caller.opts.t = "obj"
    /\ caller' = [caller EXCEPT !.opts = SetProp(caller.opts, key, value)]
    /\ last' = [op |-> "mutate", b |-> 0, args |-> <<Str(key), value>>, res |-> Undef]
    /\ UNCHANGED <<builders, shared, constructed>>

\* caller.basePath.push(value): the root normalized the sequence when it was
\* made and does not hold the sequence itself.
PushOuter(values) ==
  \E value \in values :
    /\ builders # <<>>
    /\ IsArr(caller.basePath)
    /\ Len(caller.basePath.a) < MaxElements
    /\ caller' = [caller EXCEPT !.basePath = Arr(Append(caller.basePath.a, value))]
    /\ last' = [op |-> "push", b |-> 0, args |-> <<value>>, res |-> Undef]
    /\ UNCHANGED <<builders, shared, constructed>>

\* caller.basePath[0].push(value): when the root's basePath is that very
\* sequence, the root's captured basePath shows the new element, and so does
\* its .basePath field while it still holds the same object.
PushInner(values) ==
  \E value \in values :
    LET inner == caller.basePath.a[1]
        pushed == Arr(Append(inner.a, value))
        root == builders[1]
    IN /\ builders # <<>>
       /\ IsArr(caller.basePath) /\ Len(caller.basePath.a) > 0
       /\ IsArr(inner) /\ Len(inner.a) < MaxElements
       /\ caller' = [caller EXCEPT !.basePath = Arr([caller.basePath.a EXCEPT ![1] = pushed])]
       /\ builders' =
            IF shared
            THEN [builders EXCEPT ![1] =
                    [root EXCEPT !.basePath = pushed,
                                 !.attrBasePath = IF root.attrBasePath = inner THEN pushed
                                                  ELSE root.attrBasePath]]
            ELSE builders
       /\ last' = [op |-> "push", b |-> 0, args |-> <<value>>, res |-> Undef]
       /\ UNCHANGED <<shared, constructed>>

\* builders[i].basePath = value: the field only, the captured basePath stays.
AssignBasePath(values) ==
  \E i \in 1..Len(builders), value \in values :
    /\ builders' = [builders EXCEPT ![i].attrBasePath = value]
    /\ last' = [op |-> "assign", b |-> i, args |-> <<Str(<<"b">>), value>>, res |-> Undef]
    /\ UNCHANGED <<caller, shared, constructed>>

\* builders[i].path = value
AssignPath(values) ==
  \E i \in 1..Len(builders), value \in values :
    /\ builders' = [builders EXCEPT ![i].path = value]
    /\ last' = [op |-> "assign", b |-> i, args |-> <<Str(KeyPath), value>>, res |-> Undef]
    /\ UNCHANGED <<caller, shared, constructed>>

FrameBases ==
  {Str(sHSlash), Arr(<<Str(sH), Str(sTokenA)>>), Arr(<<Arr(<<Str(sH), Str(sTokenA)>>)>>)}
FrameOptions ==
  {Str(sArrow), Obj(<<Prop(KeyDelimiter, Str(sArrow)), Prop(KeyPath, Str(sLabel))>>)}
FrameSubPaths == {Str(sTokenA)}
FrameSubOptions == {Undef}
FrameArgLists == {<<>>, <<Str(sA)>>, <<Str(sTokenA), PayloadWithQuery>>}
FrameKeys == {KeyDelimiter, KeyTokenPrefix}
FrameValues == {Str(<<"|">>)}
FrameElements == {Str(sA)}
FrameAssigned == {Str(sA)}

NextFrame ==
  \/ Create(FrameBases, FrameOptions)
  \/ Sub(FrameSubPaths, FrameSubOptions)
  \/ Call(FrameArgLists)
  \/ MutateOptions(FrameKeys, FrameValues)
  \/ PushOuter(FrameElements)
  \/ PushInner(FrameElements)
  \/ AssignBasePath(FrameAssigned)
  \/ AssignPath(FrameAssigned)

SpecFrame == Init /\ [][NextFrame]_vars

\* Calls of a builder and of a sub builder whose base path holds a token:
\* PathMaker('h/', opts) and its .sub('u/:a') or .sub('u->$a').
OrderSubPaths == {Str(<<"u", "/", ":", "a">>), Str(<<"u", "-", ">", "$", "a">>)}

InitSub ==
  /\ \E opts \in Options, subPath \in OrderSubPaths :
       LET root == PathMaker(Str(sHSlash), opts)
       IN /\ builders = <<root, createSub(root, subPath, Undef)>>
          /\ caller = [basePath |-> Str(sHSlash), opts |-> opts]
  /\ last = NoCall
  /\ shared = FALSE
  /\ constructed = builders

\* Fragments, payloads and queries that hold tokens and token-like text.
sTokenKey == <<"/", ":", "a", "/">>
OrderFragments ==
  {Str(<<":", "b">>), Str(<<"$", "b", "-", ">", ":", "b">>), Arr(<<Str(sA), Str(sTokenA)>>)}
OrderQueries ==
  {Undef, QueryPlain, Str(sTokenKey),
   Obj(<<Prop(sTokenKey, Str(<<"/", ":", "b", "/">>))>>),
   Obj(<<Prop(<<"-", ">", "$", "a", "-", ">">>, Str(<<"%", "2", "F", ":", "a">>))>>)}
OrderPayloads ==
  {Undef, Obj(<<Prop(sA, Num(10))>>),
   Obj(<<Prop(sA, Str(<<":", "b">>)), Prop(<<"b">>, Str(<<"x">>))>>),
   Obj(<<Prop(sA, Num(10)), Prop(<<"b">>, Str(sXY)),
         Prop(KeyQuery, Obj(<<Prop(sTokenKey, Str(sTokenKey))>>))>>)}

OrderArgLists ==
  {<<>>}
    \cup {<<f>> : f \in OrderFragments}
    \cup {<<p>> : p \in OrderPayloads}
    \cup {<<f, p>> : f \in OrderFragments, p \in OrderPayloads}
    \cup {<<p, q>> : p \in OrderPayloads, q \in OrderQueries}
    \cup {<<f, p, q>> : f \in OrderFragments, p \in OrderPayloads, q \in OrderQueries}

NextOrder == Call(OrderArgLists)

SpecOrder == InitSub /\ [][NextOrder]_vars

\* ------------------------------------------------------------ claims

LastBuilder == builders[last.b]

\* The steps of a call once the roles are known: join the fragment, merge
\* the payload, append the query (hasFragment: a fragment was given).
ApplyRoles(b, hasFragment, fragment, payload, query) ==
  LET joined == IF hasFragment THEN combinePath(b.delimiter, b.basePath, fragment)
                ELSE b.basePath
      merged == IF joined.t = "throw" THEN Throw
                ELSE IF Truthy(payload)
                THEN mergePayload(b.delimiter, b.tokenPrefix, joined, payload)
                ELSE joined
  IN IF merged.t = "throw" THEN Throw
     ELSE IF Truthy(query) THEN Str(ToStr(merged) \o makeQueryString(query).s)
     ELSE merged

\* payload.query, if the payload is there to carry one.
OwnQuery(payload) == IF IsNullish(payload) THEN Undef ELSE Get(payload, KeyQuery)

\* The result the precedence table gives for a call; secondAbsent(v) says
\* when the explicit second argument of the (payload, query) shape counts
\* as absent.
TableResult(b, args, secondAbsent(_)) ==
  CASE Len(args) = 0 -> b.basePath
    [] Len(args) = 1 ->
         IF args[1].t \in {"str", "arr"} THEN ApplyRoles(b, TRUE, args[1], Undef, Undef)
         ELSE ApplyRoles(b, FALSE, Undef, args[1], OwnQuery(args[1]))
    [] Len(args) = 2 ->
         IF args[1].t \in {"str", "arr"}
         THEN ApplyRoles(b, TRUE, args[1], args[2], OwnQuery(args[2]))
         ELSE ApplyRoles(b, FALSE, Undef, args[1],
                         IF secondAbsent(args[2]) THEN OwnQuery(args[1]) ELSE args[2])
    [] OTHER -> ApplyRoles(b, TRUE, args[1], args[2], args[3])

Falsy(v) == ~Truthy(v)

\* C1 (as stated): every call returns what the precedence table gives, where
\* in the (payload, query) shape payload.query is used only when the second
\* argument is absent (undefined or null).
C1_TableAbsent ==
  last.op = "call" => last.res = TableResult(LastBuilder, last.args, IsNullish)

\* C1 (amended): every call returns what the precedence table gives, where in
\* the (payload, query) shape payload.query is used whenever the second
\* argument is falsy (undefined, null, false, 0 or ''), not only when absent.
C1_TableFalsy ==
  last.op = "call" => last.res = TableResult(LastBuilder, last.args, Falsy)

\* C1 witness: a call (payload, '') whose payload carries a query returned
\* the base path followed by the payload's own query.
C1_Witness ==
  /\ last.op = "call"
  /\ last.args = <<PayloadWithQuery, Str(<<>>)>>
  /\ LastBuilder.delimiter = sSlash
  /\ last.res = Str(sHSlash \o <<"?", "b", "=", "x", "%", "2", "0", "y">>)

\* The builder a sub call returned, and whether it returned one.
SubReturned == last.op = "sub" /\ last.res.t = "builder"
Child == builders[last.res.i]

\* subOpts.delimiter / subOpts.tokenPrefix, when subOpts is an object that
\* carries a valid one.
CarriesDelimiter(subOpts) == subOpts.t = "obj" /\ isDelimiter(Get(subOpts, KeyDelimiter))
CarriesTokenPrefix(subOpts) == subOpts.t = "obj" /\ isTokenPrefix(Get(subOpts, KeyTokenPrefix))

C3_SubIsCallWithFragment ==
  (SubReturned /\ IsStr(last.args[1])) =>
    LET b == LastBuilder
        f == last.args[1]
    IN /\ Child.basePath = combinePath(b.delimiter, b.basePath, f)
       /\ Child.basePath = makePath(b, <<f>>)
       /\ makePath(Child, <<>>) = makePath(b, <<f>>)
       /\ \A p \in {PayloadWithQuery, PayloadPlain} :
            makePath(Child, <<p>>) = makePath(b, <<f, p>>)

\* A value followed by a suffix, as `returnPath += suffix` leaves it; an
\* empty suffix is never appended.
WithSuffix(v, suffix) ==
  IF v.t = "throw" THEN Throw
  ELSE IF Len(suffix) = 0 THEN v
  ELSE Str(ToStr(v) \o suffix)

\* A string read as a mapping from its character indices to its characters.
IndexedEncoding(str) ==
  IF Len(str) = 0 THEN <<>>
  ELSE <<"?">> \o Join([i \in 1..Len(str) |->
         NumToStr(i - 1) \o <<"=">> \o encodeURIComponent(<<str[i]>>)], <<"&">>)

CallWithStringQuery == last.op = "call" /\ Len(last.args) = 3 /\ IsStr(last.args[3])
WithoutQuery == makePath(LastBuilder, <<last.args[1], last.args[2], Undef>>)

EncodedInOrder(o, perm) ==
  <<"?">> \o Join([i \in 1..Len(o) |->
    o[perm[i]].k \o <<"=">> \o encodeURIComponent(ToStr(o[perm[i]].v))], <<"&">>)

Orders(n) == {f \in [1..n -> 1..n] : \A i, j \in 1..n : i # j => f[i] # f[j]}

\* The order in which the own keys of a mapping are enumerated: the keys that
\* are array indices first, by ascending number, then the other keys in
\* insertion order.
EnumerationOrder(o) ==
  CHOOSE f \in Orders(Len(o)) :
    \A i, j \in 1..Len(o) : i < j =>
      LET p == o[f[i]].k
          q == o[f[j]].k
      IN \/ IsIndexKey(p) /\ ~IsIndexKey(q)
         \/ IsIndexKey(p) /\ IsIndexKey(q) /\ StrToNum(p) < StrToNum(q)
         \/ ~IsIndexKey(p) /\ ~IsIndexKey(q) /\ f[i] < f[j]

QueryOfMapping == last.op = "query" /\ last.args[1].t = "obj" /\ Len(last.args[1].o) > 0
QueryOfNothing ==
  last.op = "query" /\ (IsNullish(last.args[1]) \/ last.args[1] = Obj(<<>>))

\* C5 (as stated): query is '' for null, undefined and the empty mapping, and
\* otherwise '?' followed by key=percentEncode(value) for every own key in
\* insertion order joined by '&', the keys unencoded.
C5_InsertionOrder ==
  /\ QueryOfNothing => last.res = Str(<<>>)
  /\ QueryOfMapping =>
       last.res = Str(EncodedInOrder(last.args[1].o, [i \in 1..Len(last.args[1].o) |-> i]))

\* C5 (amended): query is '' for null, undefined and the empty mapping, and
\* otherwise '?' followed by key=percentEncode(value) joined by '&', the keys
\* unencoded, for every own key in the order Object.keys gives: keys that are
\* array indices first in ascending numeric order, then the others in
\* insertion order.
C5_KeysOrder ==
  /\ QueryOfNothing => last.res = Str(<<>>)
  /\ QueryOfMapping =>
       last.res = Str(EncodedInOrder(last.args[1].o, EnumerationOrder(last.args[1].o)))

\* C5 witness: query({ 'b ': 'x y', 10: 'a' }) returned '?10=a&b =x%20y'.
C5_Witness ==
  /\ last.op = "query"
  /\ last.args = <<Obj(<<Prop(<<"b", " ">>, Str(sXY)), Prop(<<"1", "0">>, Str(sA))>>)>>
  /\ last.res = Str(<<"?", "1", "0", "=", "a", "&", "b", " ", "=", "x", "%", "2", "0", "y">>)

\* The segment a token segment becomes: the string coercion of the value.
Coerced(value) ==
  CASE value.t = "null" -> <<"n", "u", "l", "l">>
    [] value.t = "undef" -> <<"u", "n", "d", "e", "f", "i", "n", "e", "d">>
    [] OTHER -> ToStr(value)

OwnEntries(payload) == {payload.o[i].k : i \in 1..Len(payload.o)}
EntryOf(payload, key) == payload.o[CHOOSE i \in 1..Len(payload.o) : payload.o[i].k = key].v

\* What the claim says one segment becomes.
MergedSegment(tokenPrefix, payload, segment) ==
  IF Len(segment) < 2 \/ segment[1] # tokenPrefix[1] THEN segment
  ELSE IF Tail(segment) \notin OwnEntries(payload) THEN segment
  ELSE Coerced(EntryOf(payload, Tail(segment)))

CallWithPayload ==
  /\ last.op = "call" /\ Len(last.args) = 2
  /\ IsStr(last.args[1]) /\ last.args[2].t = "obj"
  /\ KeyQuery \notin OwnEntries(last.args[2])
JoinedPath == combinePath(LastBuilder.delimiter, LastBuilder.basePath, last.args[1]).s
JoinedSegments == Split(JoinedPath, LastBuilder.delimiter)

\* No value of the payload holds the delimiter.
ValuesHoldNoDelimiter ==
  \A i \in 1..Len(last.args[2].o) :
    Len(Split(Coerced(last.args[2].o[i].v), LastBuilder.delimiter)) = 1

\* C6: a call with a payload returns the joined path split on the delimiter
\* with every segment shorter than 2 characters, not starting with the token
\* prefix, or naming no own entry of the payload left as it is, and every
\* other segment replaced by the string coercion of its entry, in the same
\* number and order; replaced values are not scanned again.
C6_MergeBySegment ==
  CallWithPayload =>
    LET b == LastBuilder
        want == [i \in 1..Len(JoinedSegments) |->
                   MergedSegment(b.tokenPrefix, last.args[2], JoinedSegments[i])]
    IN /\ last.res = Str(Join(want, b.delimiter))
       /\ ValuesHoldNoDelimiter => Split(last.res.s, b.delimiter) = want

\* C6 witness: b(':a/:b', { a: ':b', b: 'z' }) returned 'h/:b/z'.
C6_Witness ==
  /\ CallWithPayload
  /\ last.args = <<Str(<<":", "a", "/", ":", "b">>),
                   Obj(<<Prop(sA, Str(<<":", "b">>)), Prop(<<"b">>, Str(<<"z">>))>>)>>
  /\ LastBuilder.delimiter = sSlash
  /\ last.res = Str(<<"h", "/", ":", "b", "/", "z">>)

\* a without one trailing delimiter, b without one leading delimiter.
DropTrailing(a, d) == IF EndsWith(a, d) THEN SubSeq(a, 1, Len(a) - Len(d)) ELSE a
DropLeading(b, d) == IF StartsWith(b, d) THEN SubSeq(b, Len(d) + 1, Len(b)) ELSE b

NormalizeOfStrings(n) ==
  /\ last.op = "normalize" /\ IsArr(last.args[1]) /\ Len(last.args[1].a) = n
  /\ \A i \in 1..n : IsStr(last.args[1].a[i])

\* C7: for every delimiter d, of one character or more, combine(a, '') is a
\* and, for a non-empty b, combine(a, b) is a without one trailing d, then d,
\* then b without one leading d: exactly one d at the join.
C7_OneDelimiterAtJoin ==
  NormalizeOfStrings(2) =>
    LET d == LastBuilder.delimiter
        a == last.args[1].a[1].s
        b == last.args[1].a[2].s
    IN last.res = Str(IF Len(b) = 0 THEN a ELSE DropTrailing(a, d) \o d \o DropLeading(b, d))

\* combine(x, y) of two results, either of which may be an exception.
CombineResults(d, x, y) ==
  IF x.t = "throw" \/ y.t = "throw" THEN Throw ELSE combinePath(d, x, y)

\* C8: combine is associative over strings and sequences, for every
\* delimiter: combine(combine(a, b), c) == combine(a, combine(b, c)).
C8_Associative ==
  (last.op = "normalize" /\ IsArr(last.args[1]) /\ Len(last.args[1].a) = 3) =>
    LET d == LastBuilder.delimiter
        a == last.args[1].a[1]
        b == last.args[1].a[2]
        c == last.args[1].a[3]
    IN /\ last.res = CombineResults(d, combinePath(d, a, b), c)
       /\ last.res = CombineResults(d, a, combinePath(d, b, c))

\* C9: normalize always returns a string (the left fold of combine over a
\* sequence, the element normalized for a sequence of one), and so every
\* builder's base path is a string.
C9_NormalizeIsString ==
  /\ last.op = "normalize" => IsStr(last.res)
  /\ (last.op = "normalize" /\ IsArr(last.args[1]) /\ Len(last.args[1].a) = 1) =>
       last.res = normalizePath(LastBuilder.delimiter, last.args[1].a[1])
  /\ \A i \in 1..Len(builders) : IsStr(builders[i].basePath)

\* C10: no operation raises: create and sub return a builder, a call,
\* normalize and query return a string.
C10_NoException ==
  /\ last.res.t # "throw"
  /\ last.op \in {"create", "sub"} => last.res.t = "builder"
  /\ last.op \in {"call", "normalize", "query"} => IsStr(last.res)

\* ---- C11

\* The delimiter and the token prefix the options stand for: a valid value, or
\* the default in its place.
ValidDelimiter(value) == value.t = "str" /\ value.s # <<>>
ValidTokenPrefix(value) == value.t = "str" /\ Len(value.s) = 1
DelimiterOf(opts) ==
  CASE opts.t = "str" -> IF ValidDelimiter(opts) THEN opts.s ELSE <<"/">>
    [] opts.t = "obj" -> IF ValidDelimiter(Get(opts, KeyDelimiter))
                         THEN Get(opts, KeyDelimiter).s ELSE <<"/">>
    [] OTHER -> <<"/">>
TokenPrefixOf(opts) ==
  CASE opts.t = "obj" -> IF ValidTokenPrefix(Get(opts, KeyTokenPrefix))
                         THEN Get(opts, KeyTokenPrefix).s ELSE <<":">>
    [] OTHER -> <<":">>

\* C11: invalid option values fall back silently to the defaults: PathMaker
\* does not raise, an empty or non-string delimiter leaves '/', a tokenPrefix
\* that is not a string of one character leaves ':', for bare and structured
\* options alike, and the valid fields of the same object are still applied.
C11_InvalidFallBack ==
  /\ last.op = "create" => last.res.t = "builder"
  /\ builders # <<>> =>
       /\ builders[1].delimiter = DelimiterOf(caller.opts)
       /\ builders[1].tokenPrefix = TokenPrefixOf(caller.opts)

\* Valid and invalid fields in one options object:
\* PathMaker('h/', { delimiter: '|', tokenPrefix: '$$' }) takes '|' and keeps ':'.
C11_Witness ==
  /\ last.op = "create"
  /\ caller.opts.t = "obj"
  /\ Get(caller.opts, KeyDelimiter) = Str(<<"|">>)
  /\ Get(caller.opts, KeyTokenPrefix) = Str(<<"$", "$">>)
  /\ builders[1].delimiter = <<"|">>
  /\ builders[1].tokenPrefix = <<":">>

\* ---- C12

\* C12: a builder's output depends only on its arguments and on what was
\* fixed when it was made: whatever happened since (calls, subs, the caller
\* changing the options object or the base sequence it passed, assignments to
\* the builder's basePath and path fields), a call returns what the builder
\* as it was made returns for the same arguments; PathMaker leaves the
\* caller's options object as it was passed and sub leaves every existing
\* builder as it was.
C12_OutputFixed ==
  [][/\ last'.op = "call" => last'.res = makePath(constructed'[last'.b], last'.args)
     /\ last'.op = "create" => caller'.opts = last'.args[2]
     /\ last'.op = "sub" => \A i \in 1..Len(builders) : builders'[i] = builders[i]]_vars

\* ---- C13

\* C13: a bare string as the second argument of sub sets only the child's
\* .path: the child's basePath is combine(parent.basePath, subPath) and its
\* delimiter and tokenPrefix are the parent's, even when the string would be
\* a valid delimiter.
C13_BareStringIsLabel ==
  (SubReturned /\ IsStr(last.args[2])) =>
    LET parent == LastBuilder
    IN /\ Child.path = last.args[2]
       /\ Child.attrBasePath = combinePath(parent.delimiter, parent.attrBasePath, last.args[1])
       /\ Child.delimiter = parent.delimiter
       /\ Child.tokenPrefix = parent.tokenPrefix

\* ---- C14

\* The label subOpts carries: a bare string, or the string path of an object.
HasLabel(subOpts) ==
  IsStr(subOpts) \/ (subOpts.t = "obj" /\ IsStr(Get(subOpts, KeyPath)))
LabelOf(subOpts) == IF IsStr(subOpts) THEN subOpts ELSE Get(subOpts, KeyPath)

\* C14: the subPath given to sub is the .path of the returned builder unless
\* subOpts overrides it: b.sub(subPath).path == subPath when subOpts is not
\* given or carries no string path, and the override otherwise.
C14_SubPathIsLabel ==
  (SubReturned /\ IsStr(last.args[1])) =>
    Child.path = IF HasLabel(last.args[2]) THEN LabelOf(last.args[2]) ELSE last.args[1]

\* What the code does in place of C14: without an override the .path of the
\* child is ''.
SubPathDropped ==
  (SubReturned /\ IsStr(last.args[1])) =>
    Child.path = IF HasLabel(last.args[2]) THEN LabelOf(last.args[2]) ELSE Str(<<>>)

\* ---- C15

\* The joined path with every segment merged from the payload.
Substituted(b, joined, payload) ==
  LET segments == Split(joined.s, b.delimiter)
  IN Str(Join([i \in 1..Len(segments) |-> MergedSegment(b.tokenPrefix, payload, segments[i])],
              b.delimiter))

\* C15: a call joins the fragment, then substitutes tokens, then appends the
\* query: tokens are substituted in the whole joined path, those of a sub
\* builder's base path included, and what follows the substituted path is
\* exactly the query string of the query, untouched by substitution.
C15_JoinMergeAppend ==
  (last.op = "call" /\ last.res.t # "throw") =>
    LET b == LastBuilder
        r == resolveArguments(b, last.args)
        joined == r.returnPath
        path == IF r.payload.t = "obj" THEN Substituted(b, joined, r.payload) ELSE joined
    IN last.res = Str(path.s \o makeQueryString(r.query).s)

\* PathMaker('h/').sub('u/:a')({ a: 10 }, { '/:a/': '/:b/' }) is
\* 'h/u/10?/:a/=%2F%3Ab%2F': the token of the base path is merged, the key of
\* the query is not.
C15_Witness ==
  /\ last.op = "call"
  /\ last.b = 2
  /\ LastBuilder.basePath = Str(<<"h", "/", "u", "/", ":", "a">>)
  /\ last.args = <<Obj(<<Prop(sA, Num(10))>>),
                   Obj(<<Prop(sTokenKey, Str(<<"/", ":", "b", "/">>))>>)>>
  /\ last.res = Str(<<"h", "/", "u", "/", "1", "0", "?", "/", ":", "a", "/", "=",
                      "%", "2", "F", "%", "3", "A", "b", "%", "2", "F">>)

====
